---- MODULE Spec2Model ----
(***************************************************************************)
(* Model of phalanx.services.secrets.SecretsService: the fixed-point       *)
(* resolution of secret requirements (_resolve_secrets, _resolve_secret)   *)
(* and the audit of the resolved secrets against the Vault snapshot        *)
(* (audit), one run of audit(env_name) per behaviour.                      *)
(*                                                                         *)
(* Python values are modelled as follows.                                  *)
(*   None                      the string NONE                             *)
(*   SecretStr(v)              the string v (SecretStr("") is the string   *)
(*                             ""); its truth value is Truthy              *)
(*   dict (insertion ordered)  a sequence of entries [k |-> key, v |-> val]*)
(*   Secret                    [application, key, value, copy_rules,       *)
(*                             generate]; copy_rules is <<>> (None) or     *)
(*                             <<application, key>>; generate is <<>>      *)
(*                             (None), <<"independent">> or                *)
(*                             <<"source", key>>                           *)
(*   ResolvedSecret            [key, application, value]                   *)
(*   ResolvedSecret | None     <<>> (None) or <<secret>>                   *)
(***************************************************************************)
EXTENDS Naturals, Sequences, FiniteSets, TLC

\* ------------------------------------------------------------------ bounds

\* Longest requirement list drawn as input with every strategy; the lists of
\* ChainLists, restricted to static values and copies, name every pair.
MaxReqs == 2

\* ------------------------------------------------------------- input domain

NONE == "None"

AppOrder == <<"A", "B">>
KeyOrder == <<"x", "y">>

\* The (application, key) pairs a requirement may be declared for, and that
\* the Vault snapshot may hold a value for.
Pairs == {<<"A", "x">>, <<"A", "y">>, <<"B", "y">>}

\* Values the independent generator may return (it is random).
GenValues == {"g", "h"}

\* Values the Vault snapshot may hold for a key: the empty SecretStr and a
\* non-empty one.
StoreValues == {"", "t"}

\* ------------------------------------------------------------ Python values

\* bool(v) for v: SecretStr | None. SecretStr has __len__, so the empty
\* SecretStr is false like None.
Truthy(v) == v # NONE /\ v # ""

\* dict: `k in d`
DictHas(d, k) == \E i \in DOMAIN d : d[i].k = k

\* dict: d[k], for k in d
DictAt(d, k) == d[CHOOSE i \in DOMAIN d : d[i].k = k].v

\* dict: d.get(k, default)
DictGet(d, k, default) == IF DictHas(d, k) THEN DictAt(d, k) ELSE default

\* dict: d[k] = v (a new key goes last, an existing key keeps its place)
DictSet(d, k, v) ==
    IF DictHas(d, k)
    THEN [i \in DOMAIN d |-> IF d[i].k = k THEN [k |-> k, v |-> v] ELSE d[i]]
    ELSE Append(d, [k |-> k, v |-> v])

\* dict: del d[k]
DictDel(d, k) == SelectSeq(d, LAMBDA e : e.k # k)

\* The generate() of a SourceSecretGenerateRules: a function of the source
\* value (upper-casing, as in the specification's example).
Generate(v) ==
    CASE v = "s" -> "S"
      [] v = "t" -> "T"
      [] v = "g" -> "G"
      [] v = "h" -> "H"
      [] OTHER -> v

\* ------------------------------------------------------------- input lists

\* The resolution strategies a requirement is drawn from: no field set, every
\* field alone, and two fields together (a static value with a copy or a
\* generate rule, a copy rule with a generator), for the priority order of
\* _resolve_secret.
StaticValues == {"s"}
CopySources == {<<"A", "x">>, <<"B", "y">>}
GenerateRules == {<<"independent">>, <<"source", "x">>}

Strategies ==
    {[value |-> NONE, copy_rules |-> <<>>, generate |-> <<>>],
     [value |-> "", copy_rules |-> <<>>, generate |-> <<>>]}
    \cup {[value |-> v, copy_rules |-> <<>>, generate |-> <<>>] : v \in StaticValues}
    \cup {[value |-> NONE, copy_rules |-> c, generate |-> <<>>] : c \in CopySources}
    \cup {[value |-> NONE, copy_rules |-> <<>>, generate |-> g] : g \in GenerateRules}
    \cup {[value |-> v, copy_rules |-> c, generate |-> <<>>] :
            v \in StaticValues, c \in CopySources}
    \cup {[value |-> v, copy_rules |-> <<>>, generate |-> g] :
            v \in StaticValues, g \in GenerateRules}
    \cup {[value |-> NONE, copy_rules |-> c, generate |-> <<"independent">>] :
            c \in CopySources}

\* A Secret: the requirement of one key of one application.
Secret(p, s) ==
    [application |-> p[1], key |-> p[2], value |-> s.value,
     copy_rules |-> s.copy_rules, generate |-> s.generate]

Secrets == {Secret(p, s) : p \in Pairs, s \in Strategies}

PairOf(config) == <<config.application, config.key>>

\* The requirement lists of at most MaxReqs requirements, of every strategy,
\* the key unique within its application, in every order.
ShortLists ==
    UNION {{l \in [1..n -> Secrets] :
              \A i, j \in 1..n : PairOf(l[i]) = PairOf(l[j]) => i = j} :
           n \in 0..MaxReqs}

\* The strategies of the lists that name every pair: no rule, a static value,
\* or a copy of either source.
ChainStrategies ==
    {[value |-> NONE, copy_rules |-> <<>>, generate |-> <<>>]}
    \cup {[value |-> v, copy_rules |-> <<>>, generate |-> <<>>] : v \in StaticValues}
    \cup {[value |-> NONE, copy_rules |-> c, generate |-> <<>>] : c \in CopySources}

\* The requirement lists that name every pair once, in every order: they hold
\* the chains of copies, a copy of a copy of a third requirement.
ChainLists ==
    {l \in [1..Cardinality(Pairs) -> {Secret(p, s) : p \in Pairs, s \in ChainStrategies}] :
        \A i, j \in DOMAIN l : PairOf(l[i]) = PairOf(l[j]) => i = j}

\* The requirement lists a run starts from.
SecretLists == ShortLists \cup ChainLists

ABSENT == "absent"

\* The Vault snapshots: every application present or absent, every key of a
\* present application absent or holding a value (applications in the order
\* of AppOrder, keys in the order of KeyOrder).
Snapshot(apps, c) ==
    LET keysOf(a) ==
            LET ks == SelectSeq(KeyOrder,
                        LAMBDA k : <<a, k>> \in Pairs /\ c[<<a, k>>] # ABSENT)
            IN  [i \in 1..Len(ks) |-> [k |-> ks[i], v |-> c[<<a, ks[i]>>]]]
        as == SelectSeq(AppOrder, LAMBDA a : a \in apps)
    IN  [i \in 1..Len(as) |-> [k |-> as[i], v |-> keysOf(as[i])]]

Snapshots ==
    {Snapshot(apps, c) :
        apps \in SUBSET {AppOrder[i] : i \in DOMAIN AppOrder},
        c \in [Pairs -> {ABSENT} \cup StoreValues]}

\* ------------------------------------------------------- _resolve_secret

ResolvedSecret(key, application, value) ==
    [key |-> key, application |-> application, value |-> value]

\* dict: d.get(k), as <<>> for None and <<v>> for a value v
Lookup(d, k) == IF DictHas(d, k) THEN <<DictAt(d, k)>> ELSE <<>>

\* The outcome of one call of _resolve_secret: ret is the value returned
\* (<<>> for None), generate_called tells whether config.generate.generate
\* was called.
Returned(ret, generate_called) == [ret |-> ret, generate_called |-> generate_called]

\* `if config.value:` taken: the static value.
static_case(config) ==
    Returned(<<ResolvedSecret(config.key, config.application, config.value)>>, FALSE)

\* Variant of copy_case for C16: hands back the source's own entry, which is
\* named after the source's application and key.
copy_case_return_other(config, resolved) ==
    LET application == config.copy_rules[1]
        other == Lookup(DictGet(resolved, application, <<>>), config.copy_rules[2])
    IN  IF other = <<>>
        THEN Returned(<<>>, FALSE)
        ELSE Returned(<<other[1]>>, FALSE)

\* `if config.copy_rules:` taken: the value of the secret copied from, or
\* None while that secret is not resolved.
copy_case(config, resolved) ==
    LET application == config.copy_rules[1]
        other == Lookup(DictGet(resolved, application, <<>>), config.copy_rules[2])
    IN  IF other = <<>>
        THEN Returned(<<>>, FALSE)
        ELSE Returned(<<ResolvedSecret(config.key, config.application, other[1].value)>>,
                      FALSE)

\* `if config.generate and not current_value:` taken: a generated value, from
\* the source secret of the same application or independent. `fresh` is the
\* value the independent generator returns.
generate_case(config, resolved, fresh) ==
    IF config.generate[1] = "source"
    THEN LET other_key == config.generate[2]
             other == Lookup(DictGet(resolved, config.application, <<>>), other_key)
         IN  IF ~(other # <<>> /\ Truthy(other[1].value))
             THEN Returned(<<>>, FALSE)
             ELSE Returned(<<ResolvedSecret(config.key, config.application,
                                            Generate(other[1].value))>>, TRUE)
    ELSE Returned(<<ResolvedSecret(config.key, config.application, fresh)>>, TRUE)

\* The remaining case: the current value in Vault.
current_case(config, current_value) ==
    Returned(<<ResolvedSecret(config.key, config.application, current_value)>>, FALSE)

\* Variant of resolve_secret_call for C3: a copy whose source is not resolved
\* yet resolves to an unset value instead of waiting.
resolve_secret_call_copy_unset(config, resolved, current_value, fresh) ==
    IF Truthy(config.value) THEN static_case(config)
    ELSE IF config.copy_rules # <<>>
    THEN IF copy_case(config, resolved).ret = <<>>
         THEN current_case(config, NONE)
         ELSE copy_case(config, resolved)
    ELSE IF config.generate # <<>> /\ ~Truthy(current_value)
    THEN generate_case(config, resolved, fresh)
    ELSE current_case(config, current_value)

\* Variant for C4: the copy rule is tried before the static value.
resolve_secret_call_copy_first(config, resolved, current_value, fresh) ==
    IF config.copy_rules # <<>> THEN copy_case(config, resolved)
    ELSE IF Truthy(config.value) THEN static_case(config)
    ELSE IF config.generate # <<>> /\ ~Truthy(current_value)
    THEN generate_case(config, resolved, fresh)
    ELSE current_case(config, current_value)

\* Variant for C5: the generate rule is applied whatever the current value.
resolve_secret_call_regenerate(config, resolved, current_value, fresh) ==
    IF Truthy(config.value) THEN static_case(config)
    ELSE IF config.copy_rules # <<>> THEN copy_case(config, resolved)
    ELSE IF config.generate # <<>>
    THEN generate_case(config, resolved, fresh)
    ELSE current_case(config, current_value)

\* Variant for C6: the source of a derived generator is looked up in the
\* first application of resolved instead of the requirement's own.
resolve_secret_call_any_app(config, resolved, current_value, fresh) ==
    IF Truthy(config.value) THEN static_case(config)
    ELSE IF config.copy_rules # <<>> THEN copy_case(config, resolved)
    ELSE IF config.generate # <<>> /\ ~Truthy(current_value)
    THEN IF resolved = <<>>
         THEN generate_case(config, resolved, fresh)
         ELSE LET made == generate_case([config EXCEPT !.application = resolved[1].k],
                                        resolved, fresh)
              IN  IF made.ret = <<>> THEN made
                  ELSE Returned(<<ResolvedSecret(config.key, config.application,
                                                 made.ret[1].value)>>,
                                made.generate_called)
    ELSE current_case(config, current_value)

\* Variant for C7: a copy waits until its source is resolved with a value.
resolve_secret_call_copy_needs_value(config, resolved, current_value, fresh) ==
    IF Truthy(config.value) THEN static_case(config)
    ELSE IF config.copy_rules # <<>>
    THEN IF copy_case(config, resolved).ret # <<>>
            /\ ~Truthy(copy_case(config, resolved).ret[1].value)
         THEN Returned(<<>>, FALSE)
         ELSE copy_case(config, resolved)
    ELSE IF config.generate # <<>> /\ ~Truthy(current_value)
    THEN generate_case(config, resolved, fresh)
    ELSE current_case(config, current_value)

\* Variant for C13: a copy takes the current Vault value of its own key once
\* its source is resolved.
resolve_secret_call_copy_current(config, resolved, current_value, fresh) ==
    IF Truthy(config.value) THEN static_case(config)
    ELSE IF config.copy_rules # <<>>
    THEN IF copy_case(config, resolved).ret = <<>>
         THEN copy_case(config, resolved)
         ELSE current_case(config, current_value)
    ELSE IF config.generate # <<>> /\ ~Truthy(current_value)
    THEN generate_case(config, resolved, fresh)
    ELSE current_case(config, current_value)

\* One call of _resolve_secret: the first of the four cases that applies.
resolve_secret_call(config, resolved, current_value, fresh) ==
    IF Truthy(config.value) THEN static_case(config)
    ELSE IF config.copy_rules # <<>> THEN copy_case(config, resolved)
    ELSE IF config.generate # <<>> /\ ~Truthy(current_value)
    THEN generate_case(config, resolved, fresh)
    ELSE current_case(config, current_value)

resolve_secret(config, resolved, current_value, fresh) ==
    resolve_secret_call(config, resolved, current_value, fresh).ret

\* --------------------------------------------------------------- the state

VARIABLES
    secrets,        \* the requirement list audit() got from the environment
    vault_arg,      \* the Vault snapshot as get_environment_secrets returned it
    vault_secrets,  \* the vault_secrets dict of audit(), as it is now
    resolved,       \* _resolve_secrets: resolved
    pending,        \* _resolve_secrets: the list the current pass iterates
    unresolved,     \* _resolve_secrets: unresolved
    left,           \* _resolve_secrets: left
    idx,            \* position of the for loop of the pass in pending
    passes,         \* number of passes of the while loop started
    generated,      \* the (application, key) generate() was called for, in order
    ai,             \* position of audit's loops in the items of resolved
    missing,        \* audit: missing
    mismatch,       \* audit: mismatch
    unknown,        \* audit: unknown
    log,            \* the records written with logging.error
    report,         \* the text audit() returns
    error,          \* the exception that ended the run, if any
    pc              \* where the run is

vars == <<secrets, vault_arg, vault_secrets, resolved, pending, unresolved, left,
          idx, passes, generated, ai, missing, mismatch, unknown, log, report,
          error, pc>>

resolveVars == <<resolved, pending, unresolved, left, idx, passes, generated>>
auditVars == <<ai, missing, mismatch, unknown, log, report>>

NoError == [type |-> "None", args |-> <<>>]
KeyError(k) == [type |-> "KeyError", args |-> <<k>>]
UnresolvedSecretsError(stuck) == [type |-> "UnresolvedSecretsError", args |-> stuck]

Init ==
    /\ secrets \in SecretLists
    /\ vault_arg \in Snapshots
    /\ vault_secrets = vault_arg
    /\ resolved = <<>>
    /\ pending = <<>>
    /\ unresolved = <<>>
    /\ left = 0
    /\ idx = 0
    /\ passes = 0
    /\ generated = <<>>
    /\ ai = 0
    /\ missing = <<>>
    /\ mismatch = <<>>
    /\ unknown = <<>>
    /\ log = <<>>
    /\ report = ""
    /\ error = NoError
    /\ pc = "start"

\* ------------------------------------------------------- _resolve_secrets

\* Variant of WhileHead for C14: the next pass goes through the whole
\* requirement list again instead of the unresolved ones.
WhileHead_retry_all(todo) ==
    IF todo # <<>>
    THEN /\ pending' = secrets
         /\ unresolved' = <<>>
         /\ idx' = 1
         /\ passes' = passes + 1
         /\ pc' = "pass"
         /\ ai' = ai
    ELSE /\ pending' = pending
         /\ unresolved' = todo
         /\ idx' = idx
         /\ passes' = passes
         /\ pc' = "audit"
         /\ ai' = 1

\* The head of `while unresolved:` with `todo` as unresolved: a new pass
\* starts, or the loop ends and _resolve_secrets returns resolved to audit().
WhileHead(todo) ==
    IF todo # <<>>
    THEN /\ pending' = todo
         /\ unresolved' = <<>>
         /\ idx' = 1
         /\ passes' = passes + 1
         /\ pc' = "pass"
         /\ ai' = ai
    ELSE /\ pending' = pending
         /\ unresolved' = todo
         /\ idx' = idx
         /\ passes' = passes
         /\ pc' = "audit"
         /\ ai' = 1

\* audit() calls _resolve_secrets, which sets up its state and enters its loop.
StartResolve ==
    /\ pc = "start"
    /\ resolved' = <<>>
    /\ left' = Len(secrets)
    /\ WhileHead(secrets)
    /\ UNCHANGED <<secrets, vault_arg, vault_secrets, generated, missing, mismatch,
                   unknown, log, report, error>>

\* One iteration of `for config in secrets:`.
ResolveOne ==
    /\ pc = "pass"
    /\ idx <= Len(pending)
    /\ LET config == pending[idx] IN
       IF ~DictHas(vault_secrets, config.application)
       THEN /\ error' = KeyError(config.application)
            /\ pc' = "raised"
            /\ UNCHANGED <<resolved, unresolved, idx, generated>>
       ELSE \E fresh \in GenValues :
            LET vault_values == DictAt(vault_secrets, config.application)
                call == resolve_secret_call(config, resolved,
                                            DictGet(vault_values, config.key, NONE),
                                            fresh)
                secret == call.ret
            IN  /\ IF secret # <<>>
                   THEN /\ resolved' =
                              DictSet(resolved, secret[1].application,
                                      DictSet(DictGet(resolved, secret[1].application, <<>>),
                                              secret[1].key, secret[1]))
                        /\ unresolved' = unresolved
                   ELSE /\ unresolved' = Append(unresolved, config)
                        /\ resolved' = resolved
                /\ generated' = IF call.generate_called
                                THEN Append(generated, PairOf(config))
                                ELSE generated
                /\ idx' = idx + 1
                /\ UNCHANGED <<error, pc>>
    /\ UNCHANGED <<secrets, vault_arg, vault_secrets, pending, left, passes>>
    /\ UNCHANGED auditVars

\* Variant of EndPass for C2: only the first stuck requirement is reported.
EndPass_first_only ==
    /\ pc = "pass"
    /\ idx > Len(pending)
    /\ IF Len(unresolved) >= left
       THEN /\ error' = UnresolvedSecretsError(<<unresolved[1]>>)
            /\ pc' = "raised"
            /\ UNCHANGED <<pending, unresolved, left, idx, passes, ai>>
       ELSE /\ left' = Len(unresolved)
            /\ WhileHead(unresolved)
            /\ error' = error
    /\ UNCHANGED <<secrets, vault_arg, vault_secrets, resolved, generated, missing,
                   mismatch, unknown, log, report>>

\* Variant of EndPass for C15: the progress test lets a pass that resolved
\* nothing go on.
EndPass_no_progress ==
    /\ pc = "pass"
    /\ idx > Len(pending)
    /\ IF Len(unresolved) > left
       THEN /\ error' = UnresolvedSecretsError(unresolved)
            /\ pc' = "raised"
            /\ UNCHANGED <<pending, unresolved, left, idx, passes, ai>>
       ELSE /\ left' = Len(unresolved)
            /\ WhileHead(unresolved)
            /\ error' = error
    /\ UNCHANGED <<secrets, vault_arg, vault_secrets, resolved, generated, missing,
                   mismatch, unknown, log, report>>

\* The end of a pass: the progress test, then the head of the while loop.
EndPass ==
    /\ pc = "pass"
    /\ idx > Len(pending)
    /\ IF Len(unresolved) >= left
       THEN /\ error' = UnresolvedSecretsError(unresolved)
            /\ pc' = "raised"
            /\ UNCHANGED <<pending, unresolved, left, idx, passes, ai>>
       ELSE /\ left' = Len(unresolved)
            /\ WhileHead(unresolved)
            /\ error' = error
    /\ UNCHANGED <<secrets, vault_arg, vault_secrets, resolved, generated, missing,
                   mismatch, unknown, log, report>>

\* ------------------------------------------------------------------ audit

\* The (app_name, key, value) the nested loops over resolved.items() and
\* values.items() visit, in their order.
RECURSIVE Items(_)
Items(r) ==
    IF r = <<>> THEN <<>>
    ELSE [i \in 1..Len(r[1].v) |->
            [app_name |-> r[1].k, key |-> r[1].v[i].k, value |-> r[1].v[i].v]]
         \o Items(Tail(r))

\* f"{app_name} {key}"
Label(app_name, key) == app_name \o " " \o key

\* sep.join(strs)
RECURSIVE Join(_, _)
Join(sep, strs) ==
    IF strs = <<>> THEN ""
    ELSE IF Len(strs) = 1 THEN strs[1]
    ELSE strs[1] \o sep \o Join(sep, Tail(strs))

\* The bullet character U+2022 of the report, written "*" here.
Bullet == "*"

\* [f"{a} {k}" for a, lv in vault_secrets.items() for k in lv]
RECURSIVE UnknownOf(_)
UnknownOf(vs) ==
    IF vs = <<>> THEN <<>>
    ELSE [i \in 1..Len(vs[1].v) |-> Label(vs[1].k, vs[1].v[i].k)]
         \o UnknownOf(Tail(vs))

\* The text of the report for the three lists.
ReportText(miss, mism, unk) ==
    (IF miss # <<>>
     THEN "Missing secrets:\n" \o Bullet \o " "
          \o Join("\n" \o Bullet \o " ", miss) \o "\n"
     ELSE "")
    \o (IF mism # <<>>
        THEN "Incorrect secrets:\n" \o Bullet \o " "
             \o Join("\n" \o Bullet \o " ", mism) \o "\n"
        ELSE "")
    \o (IF unk # <<>>
        THEN "Unknown secrets in Vault:\n" \o Bullet \o " "
             \o Join("\n  ", unk) \o "\n"
        ELSE "")

\* The record logging.error("mismatch %s %s", expected, vault) writes.
LogRecord(expected, vault) == "mismatch " \o expected \o " " \o vault

\* One iteration of the inner loop of audit() over the resolved secrets.
AuditOne ==
    /\ pc = "audit"
    /\ ai <= Len(Items(resolved))
    /\ LET item == Items(resolved)[ai]
           app_name == item.app_name
           key == item.key
           value == item.value
       IN  IF ~DictHas(vault_secrets, app_name)
           THEN /\ error' = KeyError(app_name)
                /\ pc' = "raised"
                /\ UNCHANGED <<vault_secrets, ai, missing, mismatch, log>>
           ELSE IF DictHas(DictAt(vault_secrets, app_name), key)
           THEN LET expected == IF Truthy(value.value) THEN value.value ELSE NONE
                    vault == DictAt(DictAt(vault_secrets, app_name), key)
                IN  /\ IF expected # vault
                       THEN /\ log' = Append(log, LogRecord(expected, vault))
                            /\ mismatch' = Append(mismatch, Label(app_name, key))
                       ELSE UNCHANGED <<log, mismatch>>
                    /\ vault_secrets' =
                          DictSet(vault_secrets, app_name,
                                  DictDel(DictAt(vault_secrets, app_name), key))
                    /\ ai' = ai + 1
                    /\ UNCHANGED <<missing, error, pc>>
           ELSE /\ missing' = Append(missing, Label(app_name, key))
                /\ ai' = ai + 1
                /\ UNCHANGED <<vault_secrets, mismatch, log, error, pc>>
    /\ UNCHANGED <<secrets, vault_arg, unknown, report>>
    /\ UNCHANGED resolveVars

\* After the loops: the unknown list and the text of the report.
AuditReport ==
    /\ pc = "audit"
    /\ ai > Len(Items(resolved))
    /\ unknown' = UnknownOf(vault_secrets)
    /\ report' = ReportText(missing, mismatch, unknown')
    /\ pc' = "returned"
    /\ UNCHANGED <<secrets, vault_arg, vault_secrets, ai, missing, mismatch, log, error>>
    /\ UNCHANGED resolveVars

Next == StartResolve \/ ResolveOne \/ EndPass \/ AuditOne \/ AuditReport

Spec == Init /\ [][Next]_vars

\* ------------------------------------------------------ terms of the claims

Range(s) == {s[i] : i \in DOMAIN s}

\* resolved holds an entry for the pair p / that entry.
ResolvedHas(R, p) == DictHas(DictGet(R, p[1], <<>>), p[2])
ResolvedAt(R, p) == DictAt(DictAt(R, p[1]), p[2])

\* The snapshot, as given, has the application / holds the key of pair p /
\* the value it holds for p (NONE when it holds none).
SnapshotHasApp(a) == DictHas(vault_arg, a)
SnapshotHas(p) == DictHas(DictGet(vault_arg, p[1], <<>>), p[2])
Stored(p) == DictGet(DictGet(vault_arg, p[1], <<>>), p[2], NONE)

\* A static value is set when it is a non-empty value (the code's test is the
\* truth value of config.value).
HasStatic(r) == Truthy(r.value)
IsCopy(r) == ~HasStatic(r) /\ r.copy_rules # <<>>
IsDerived(r) ==
    /\ ~HasStatic(r)
    /\ r.copy_rules = <<>>
    /\ r.generate # <<>>
    /\ r.generate[1] = "source"
SourceOf(r) == <<r.application, r.generate[2]>>

\* _resolve_secrets has returned resolved / has raised UnresolvedSecretsError.
ResolveReturned == pc \in {"audit", "returned"}
ResolveStuck == pc = "raised" /\ error.type = "UnresolvedSecretsError"
ResolveEnded == pc \in {"audit", "returned", "raised"}

\* The pass is over and has resolved none of its pending requirements.
PassResolvedNothing ==
    pc = "pass" /\ idx > Len(pending) /\ unresolved = pending

\* ------------------------------------------------------------------- C1

\* a and b copy from each other and neither has a static value.
MutualCopy(a, b) ==
    /\ a # b
    /\ ~HasStatic(a) /\ ~HasStatic(b)
    /\ a.copy_rules = PairOf(b)
    /\ b.copy_rules = PairOf(a)

\* C1: whenever two requirements of the list copy from each other, neither with
\* a static value, resolve ends by raising UnresolvedSecretsError with both in
\* its payload, whatever the snapshot and the other requirements.
C1_CycleDetection ==
    \A a, b \in Range(secrets) :
        (MutualCopy(a, b) /\ ResolveEnded)
        => /\ ResolveStuck
           /\ a \in Range(error.args)
           /\ b \in Range(error.args)

\* ------------------------------------------------------------------- C2

\* r cannot be resolved from the resolved set R: a copy without a static value
\* whose source is not in R, or a derived generate without a stored value
\* whose source is not in R or is in R with an unset value.
NotResolvableFrom(r, R) ==
    \/ /\ IsCopy(r)
       /\ ~ResolvedHas(R, r.copy_rules)
    \/ /\ IsDerived(r)
       /\ ~Truthy(Stored(PairOf(r)))
       /\ \/ ~ResolvedHas(R, SourceOf(r))
          \/ ~Truthy(ResolvedAt(R, SourceOf(r)).value)

\* C2: UnresolvedSecretsError is raised exactly at the end of a full pass that
\* resolved nothing; its payload is the whole pending list of that pass, which
\* holds a requirement if and only if it is not resolvable from the final
\* resolved set, and holds no requirement that is in the resolved set.
C2_StuckPayload ==
    [][ /\ PassResolvedNothing => ResolveStuck'
        /\ (ResolveStuck' /\ ~ResolveStuck)
           => /\ PassResolvedNothing
              /\ error'.args = pending
              /\ resolved' = resolved
              /\ \A r \in Range(secrets) :
                    r \in Range(error'.args) <=> NotResolvableFrom(r, resolved')
              /\ \A r \in Range(error'.args) : ~ResolvedHas(resolved', PairOf(r))
      ]_vars

\* A later pass is stuck after an earlier pass resolved part of the list.
C2_Witness ==
    ResolveStuck /\ passes >= 2 /\ Len(error.args) < Len(secrets)

\* ------------------------------------------------------------------- C3

\* No requirement of the list declares an independent generator.
NoIndependent == \A r \in Range(secrets) : r.generate # <<"independent">>

\* The resolved secrets as a set of [pair, value], without their order.
ResolvedSet(R) ==
    {[pair |-> <<it.app_name, it.key>>, value |-> it.value.value] :
        it \in Range(Items(R))}

PairsIn(E) == {e.pair : e \in E}
ValueIn(E, p) == (CHOOSE e \in E : e.pair = p).value

\* What requirement r resolves to from the set E of resolved secrets: <<>>
\* while it cannot be resolved, <<v>> for the value v.
ValueFrom(r, E) ==
    IF HasStatic(r) THEN <<r.value>>
    ELSE IF r.copy_rules # <<>>
    THEN IF r.copy_rules \in PairsIn(E) THEN <<ValueIn(E, r.copy_rules)>> ELSE <<>>
    ELSE IF IsDerived(r) /\ ~Truthy(Stored(PairOf(r)))
    THEN IF SourceOf(r) \in PairsIn(E) /\ Truthy(ValueIn(E, SourceOf(r)))
         THEN <<Generate(ValueIn(E, SourceOf(r)))>>
         ELSE <<>>
    ELSE <<Stored(PairOf(r))>>

\* The least set of resolved secrets closed under ValueFrom: a function of the
\* SET S of requirements and of the snapshot, not of any order of S.
RECURSIVE Closure(_, _)
Closure(S, E) ==
    LET new == {[pair |-> PairOf(r), value |-> ValueFrom(r, E)[1]] :
                   r \in {q \in S : PairOf(q) \notin PairsIn(E) /\ ValueFrom(q, E) # <<>>}}
    IN  IF new = {} THEN E ELSE Closure(S, E \cup new)

\* The three categories of the audit of the set E against the snapshot, as sets.
MissingOf(E) == {Label(e.pair[1], e.pair[2]) : e \in {f \in E : ~SnapshotHas(f.pair)}}
MismatchOf(E) ==
    {Label(e.pair[1], e.pair[2]) :
        e \in {f \in E : /\ SnapshotHas(f.pair)
                         /\ (IF Truthy(f.value) THEN f.value ELSE NONE) # Stored(f.pair)}}
UnknownLabels(E) ==
    {Label(p[1], p[2]) : p \in {q \in Pairs : SnapshotHas(q) /\ q \notin PairsIn(E)}}

\* C3: without independent generators, the outcome of resolve and the three
\* sets of the audit are determined by the set of the requirements and the
\* snapshot alone, so they are the same for every ordering of the list: the
\* same kind of failure with the same stuck set, or the same resolved set and
\* the same missing, mismatched and unknown sets.
C3_OrderIndependent ==
    NoIndependent =>
        LET S == Range(secrets)
            appsKnown == \A r \in S : SnapshotHasApp(r.application)
            E == Closure(S, {})
        IN  /\ pc = "raised" =>
                  IF appsKnown
                  THEN /\ ResolveStuck
                       /\ Range(error.args) = {r \in S : PairOf(r) \notin PairsIn(E)}
                  ELSE error.type = "KeyError"
            /\ ResolveReturned =>
                  /\ appsKnown
                  /\ ResolvedSet(resolved) = E
                  /\ \A r \in S : PairOf(r) \in PairsIn(E)
            /\ pc = "returned" =>
                  /\ Range(missing) = MissingOf(E)
                  /\ Range(mismatch) = MismatchOf(E)
                  /\ Range(unknown) = UnknownLabels(E)

\* A list whose first requirement copies from a later one has been resolved
\* in two passes and audited.
C3_Witness ==
    /\ pc = "returned"
    /\ NoIndependent
    /\ passes = 2
    /\ IsCopy(secrets[1])
    /\ mismatch # <<>>

\* ------------------------------------------------------------------- C4

\* C4: a requirement with a static value is resolved by the first pass, when
\* the pass comes to it, to that static value, whatever its copy and generate
\* rules and whatever the snapshot holds for its key; it is never left pending.
C4_StaticPriority ==
    /\ pc = "pass" =>
          \A j \in DOMAIN pending :
              HasStatic(pending[j]) =>
                  /\ passes = 1
                  /\ j < idx =>
                        /\ ResolvedHas(resolved, PairOf(pending[j]))
                        /\ ResolvedAt(resolved, PairOf(pending[j])).value = pending[j].value
                        /\ pending[j] \notin Range(unresolved)
    /\ ResolveReturned =>
          \A r \in Range(secrets) :
              HasStatic(r) =>
                  /\ ResolvedHas(resolved, PairOf(r))
                  /\ ResolvedAt(resolved, PairOf(r)).value = r.value

\* A requirement with a static value and a copy rule whose source is not
\* resolved, and with another value in the snapshot, has got its static value.
C4_Witness ==
    /\ pc = "pass"
    /\ idx = 2
    /\ HasStatic(pending[1])
    /\ pending[1].copy_rules # <<>>
    /\ ~ResolvedHas(resolved, pending[1].copy_rules)
    /\ Truthy(Stored(PairOf(pending[1])))
    /\ Stored(PairOf(pending[1])) # pending[1].value
    /\ ResolvedAt(resolved, PairOf(pending[1])).value = pending[1].value

\* ------------------------------------------------------------------- C5

\* r is resolved by its generate rule or, with a stored value, by that value.
IsGenerate(r) == ~HasStatic(r) /\ r.copy_rules = <<>> /\ r.generate # <<>>

\* C5: a requirement with a generate rule, no static value and no copy rule,
\* whose key holds a non-empty value in the snapshot, is resolved by the first
\* pass to that stored value, and the generator is never called for it,
\* whatever the state of the source of a derived generator.
C5_IdempotentGeneration ==
    \A r \in Range(secrets) :
        (IsGenerate(r) /\ Truthy(Stored(PairOf(r)))) =>
            /\ PairOf(r) \notin Range(generated)
            /\ pc = "pass" =>
                  \A j \in DOMAIN pending :
                      pending[j] = r =>
                          /\ passes = 1
                          /\ j < idx =>
                                /\ ResolvedHas(resolved, PairOf(r))
                                /\ ResolvedAt(resolved, PairOf(r)).value = Stored(PairOf(r))
            /\ ResolveReturned =>
                  /\ ResolvedHas(resolved, PairOf(r))
                  /\ ResolvedAt(resolved, PairOf(r)).value = Stored(PairOf(r))

\* A derived generate whose source is not resolved at all has got its stored
\* value.
C5_Witness ==
    /\ pc = "pass"
    /\ idx = 2
    /\ IsDerived(pending[1])
    /\ Truthy(Stored(PairOf(pending[1])))
    /\ ~ResolvedHas(resolved, SourceOf(pending[1]))
    /\ ResolvedAt(resolved, PairOf(pending[1])).value = Stored(PairOf(pending[1]))

\* ------------------------------------------------------------------- C6

\* C6: when a pass has just tried a derived generate without a stored value,
\* the requirement is left pending if the source key of its own application
\* is not resolved or is resolved to an unset value, and otherwise it is
\* resolved to the function of the source's value.
C6_DerivedGeneration ==
    (pc = "pass" /\ idx > 1) =>
        LET r == pending[idx - 1]
            src == Lookup(DictGet(resolved, r.application, <<>>), r.generate[2])
        IN  (IsDerived(r) /\ ~Truthy(Stored(PairOf(r)))) =>
                IF ResolvedHas(resolved, PairOf(r))
                THEN /\ src # <<>>
                     /\ Truthy(src[1].value)
                     /\ ResolvedAt(resolved, PairOf(r)).value = Generate(src[1].value)
                     /\ r \notin Range(unresolved)
                ELSE /\ src = <<>> \/ ~Truthy(src[1].value)
                     /\ unresolved # <<>>
                     /\ unresolved[Len(unresolved)] = r

\* A derived generate left pending by the first pass is resolved by the
\* second to the function of its source's value.
C6_Witness ==
    /\ pc = "pass"
    /\ passes = 2
    /\ idx = 2
    /\ IsDerived(pending[1])
    /\ ResolvedHas(resolved, PairOf(pending[1]))
    /\ ResolvedAt(resolved, SourceOf(pending[1])).value = "s"
    /\ ResolvedAt(resolved, PairOf(pending[1])).value = "S"

\* ------------------------------------------------------------------- C7

InList(p) == \E r \in Range(secrets) : PairOf(r) = p

\* The (application, key) the declaration of r refers to: the source of its
\* copy rule and the source of its derived generator.
DeclaredRefs(r) ==
    (IF r.copy_rules # <<>> THEN {r.copy_rules} ELSE {})
    \cup (IF r.generate # <<>> /\ r.generate[1] = "source" THEN {SourceOf(r)} ELSE {})

\* The (application, key) resolving r depends on: none with a static value,
\* else the source of the copy rule, else the source of a derived generator
\* when the snapshot holds no value for r.
ActiveRefs(r) ==
    IF IsCopy(r) THEN {r.copy_rules}
    ELSE IF IsDerived(r) /\ ~Truthy(Stored(PairOf(r))) THEN {SourceOf(r)}
    ELSE {}

\* The transitive closure of a set of edges <<from, to>>.
RECURSIVE Transitive(_)
Transitive(E) ==
    LET more == E \cup {<<ef[1][1], ef[2][2]>> :
                           ef \in {x \in E \X E : x[1][2] = x[2][1]}}
    IN  IF more = E THEN E ELSE Transitive(more)

\* The reference edges <<pair of r, pair referred to>> of the list.
Edges(Refs(_)) == UNION {{<<PairOf(r), q>> : q \in Refs(r)} : r \in Range(secrets)}
DeclaredEdges == Edges(DeclaredRefs)
ActiveEdges == Edges(ActiveRefs)

HasCycle(E) == \E e \in Transitive(E) : e[1] = e[2]
HasDangling(E) == \E e \in E : ~InList(e[2])

\* A derived generate without a stored value whose source is resolved, to an
\* unset value.
DerivedFromUnset(r) ==
    /\ IsDerived(r)
    /\ ~Truthy(Stored(PairOf(r)))
    /\ ResolvedHas(resolved, SourceOf(r))
    /\ ~Truthy(ResolvedAt(resolved, SourceOf(r)).value)

\* C7 as stated: whenever UnresolvedSecretsError is raised, the requirement
\* list holds a circular copy/generate reference or a copy/generate reference
\* to an (application, key) that is not in the list.
C7_OnlyConfigurationDefects ==
    ResolveStuck => HasCycle(DeclaredEdges) \/ HasDangling(DeclaredEdges)

\* C7 as amended: whenever UnresolvedSecretsError is raised, the requirement
\* list holds a circular reference, a reference to an (application, key) that
\* is not in the list, or a derived generate without a stored value whose
\* source is resolved to an unset value.
C7_DefectOrUnsetSource ==
    ResolveStuck =>
        \/ HasCycle(ActiveEdges)
        \/ HasDangling(ActiveEdges)
        \/ \E r \in Range(secrets) : DerivedFromUnset(r)

\* resolve is stuck on a derived generate whose source is in the list and
\* resolved without a value, in a list with no cycle and no dangling reference.
C7_Witness ==
    /\ ResolveStuck
    /\ ~HasCycle(DeclaredEdges)
    /\ ~HasDangling(DeclaredEdges)
    /\ \E r \in Range(error.args) : DerivedFromUnset(r)

\* ------------------------------------------------------------------- C8

\* C8: an application that the snapshot has no entry for is treated as one
\* without stored secrets: the run never ends in an error other than
\* UnresolvedSecretsError, and the audit records every resolved secret of
\* such an application under missing.
C8_AbsentApplicationIsEmpty ==
    /\ error.type \in {"None", "UnresolvedSecretsError"}
    /\ pc = "returned" =>
          \A it \in Range(Items(resolved)) :
              ~SnapshotHasApp(it.app_name)
              => Label(it.app_name, it.key) \in Range(missing)

\* ------------------------------------------------------------------- C9

NoDuplicates(s) == \A i, j \in DOMAIN s : s[i] = s[j] => i = j

\* C9: when audit has returned, a resolved secret whose key the snapshot holds
\* is under mismatched exactly if its value differs from the snapshot's and is
\* not under missing; one whose key the snapshot does not hold is under
\* missing; unknown is exactly the snapshot's keys that are not resolved; the
\* three lists are disjoint and hold nothing twice.
C9_AuditClassification ==
    pc = "returned" =>
        /\ \A it \in Range(Items(resolved)) :
              LET p == <<it.app_name, it.key>>
                  l == Label(it.app_name, it.key)
              IN  IF SnapshotHas(p)
                  THEN /\ l \in Range(mismatch) <=> it.value.value # Stored(p)
                       /\ l \notin Range(missing)
                  ELSE l \in Range(missing)
        /\ Range(unknown) =
              {Label(p[1], p[2]) :
                  p \in {q \in Pairs : SnapshotHas(q) /\ ~ResolvedHas(resolved, q)}}
        /\ Range(missing) \cap Range(mismatch) = {}
        /\ Range(missing) \cap Range(unknown) = {}
        /\ Range(mismatch) \cap Range(unknown) = {}
        /\ NoDuplicates(missing) /\ NoDuplicates(mismatch) /\ NoDuplicates(unknown)

\* ------------------------------------------------------------------- C10

\* C10: when audit has returned, a resolved secret without a value whose key
\* the snapshot holds no value for (the key is absent, or present and empty)
\* is under neither mismatched nor missing.
C10_UnsetAgreement ==
    pc = "returned" =>
        \A it \in Range(Items(resolved)) :
            (it.value.value = NONE /\ ~Truthy(Stored(<<it.app_name, it.key>>)))
            => /\ Label(it.app_name, it.key) \notin Range(mismatch)
               /\ Label(it.app_name, it.key) \notin Range(missing)

\* ------------------------------------------------------------------- C11

\* The log records made of fixed text and an "application key" identifier only.
IdentifierRecords == {"mismatch " \o Label(p[1], p[2]) : p \in Pairs}

\* C11: nothing the run writes discloses a secret value: every log record is
\* fixed text with "application key" identifiers, the payload of
\* UnresolvedSecretsError holds no requirement with a value, and a KeyError
\* names an application.
C11_NoSecretDisclosed ==
    /\ \A i \in DOMAIN log : log[i] \in IdentifierRecords
    /\ error.type = "UnresolvedSecretsError"
          => \A r \in Range(error.args) : ~Truthy(r.value)
    /\ error.type = "KeyError"
          => \A a \in Range(error.args) : a \in Range(AppOrder)

\* ------------------------------------------------------------------- C12

\* The lines "<bullet> entry\n" of the entries, one bullet line each.
RECURSIVE BulletLines(_)
BulletLines(entries) ==
    IF entries = <<>> THEN ""
    ELSE Bullet \o " " \o Head(entries) \o "\n" \o BulletLines(Tail(entries))

\* A section of the report: nothing for no entries, else the title line and
\* one bullet line for each entry.
Section(title, entries) ==
    IF entries = <<>> THEN "" ELSE title \o ":\n" \o BulletLines(entries)

\* C12: the report is the sections "Missing secrets", "Incorrect secrets" and
\* "Unknown secrets in Vault" in that order, a section being there exactly if
\* its list is not empty, with every entry of every section on a bullet line
\* of its own, in the order of the list.
C12_ReportRendering ==
    pc = "returned" =>
        report = Section("Missing secrets", missing)
                 \o Section("Incorrect secrets", mismatch)
                 \o Section("Unknown secrets in Vault", unknown)

\* ------------------------------------------------------------------- C13

\* The requirement a chain of copies starting at pair p ends in: the copy
\* rules of the requirements without a static value are followed, at most n
\* times, to a pair that is not such a copy.
RECURSIVE ChainEnd(_, _)
ChainEnd(p, n) ==
    IF n = 0 \/ ~\E r \in Range(secrets) : PairOf(r) = p /\ IsCopy(r)
    THEN p
    ELSE ChainEnd((CHOOSE r \in Range(secrets) : PairOf(r) = p /\ IsCopy(r)).copy_rules,
                  n - 1)

\* C13: when a pass has just tried a copy without a static value, the copy is
\* resolved to the value its source is resolved to (an unset value included),
\* or it is left pending because its source is not resolved; and when resolve
\* returns, every copy has the resolved value of its source and of the
\* requirement its chain of copies ends in, wherever they stand in the list.
C13_CopyConsistency ==
    /\ (pc = "pass" /\ idx > 1) =>
          LET r == pending[idx - 1] IN
          IsCopy(r) =>
              IF ResolvedHas(resolved, PairOf(r))
              THEN /\ ResolvedHas(resolved, r.copy_rules)
                   /\ ResolvedAt(resolved, PairOf(r)).value
                        = ResolvedAt(resolved, r.copy_rules).value
              ELSE /\ ~ResolvedHas(resolved, r.copy_rules)
                   /\ unresolved # <<>>
                   /\ unresolved[Len(unresolved)] = r
    /\ ResolveReturned =>
          \A r \in Range(secrets) :
              IsCopy(r) =>
                  /\ ResolvedHas(resolved, PairOf(r))
                  /\ ResolvedHas(resolved, r.copy_rules)
                  /\ ResolvedAt(resolved, PairOf(r)).value
                       = ResolvedAt(resolved, r.copy_rules).value
                  /\ ResolvedHas(resolved, ChainEnd(PairOf(r), Len(secrets)))
                  /\ ResolvedAt(resolved, PairOf(r)).value
                       = ResolvedAt(resolved, ChainEnd(PairOf(r), Len(secrets))).value

\* A chain of two copies listed ahead of its end: the first requirement copies
\* the second, the second copies the third, a static value; it took three
\* passes to give the first that value, with another value stored for its key.
C13_Witness ==
    /\ ResolveReturned
    /\ passes = 3
    /\ Len(secrets) = 3
    /\ IsCopy(secrets[1])
    /\ IsCopy(secrets[2])
    /\ secrets[1].copy_rules = PairOf(secrets[2])
    /\ secrets[2].copy_rules = PairOf(secrets[3])
    /\ HasStatic(secrets[3])
    /\ Truthy(Stored(PairOf(secrets[1])))
    /\ Stored(PairOf(secrets[1])) # secrets[3].value
    /\ ResolvedAt(resolved, PairOf(secrets[1])).value = secrets[3].value
    /\ ResolvedAt(resolved, PairOf(secrets[2])).value = secrets[3].value

\* ------------------------------------------------------------------- C14

\* C14: in every step an entry of the resolved set stays in it with the same
\* value; and during a pass no requirement that the pass has still to try, or
\* has left unresolved, is in the resolved set, so that a resolved requirement
\* is never tried or resolved again.
C14_ResolvedOnlyGrows ==
    [][ /\ \A p \in Pairs :
              ResolvedHas(resolved, p) =>
                  /\ ResolvedHas(resolved', p)
                  /\ ResolvedAt(resolved', p) = ResolvedAt(resolved, p)
        /\ pc = "pass" =>
              /\ \A j \in DOMAIN pending :
                    j >= idx => ~ResolvedHas(resolved, PairOf(pending[j]))
              /\ \A r \in Range(unresolved) : ~ResolvedHas(resolved, PairOf(r))
      ]_vars

\* A second pass has resolved its requirement beside the entry the first
\* pass placed.
C14_Witness ==
    /\ pc = "pass"
    /\ passes = 2
    /\ idx = 2
    /\ Len(Items(resolved)) = 2

\* ------------------------------------------------------------------- C15

\* The run is over: audit() has returned or an exception has ended it.
Ended == pc \in {"returned", "raised"}

\* The most steps _resolve_secrets takes from the start of a pass over n
\* pending requirements when every pass resolves exactly one: n tries and the
\* end of the pass, then a pass over n - 1.
Work(n) == (n * (n + 3)) \div 2

\* An upper bound of the number of steps the run has left.
Measure ==
    CASE pc = "start" -> Work(Len(secrets)) + Len(secrets) + 3
      [] pc = "pass" -> ((Len(pending) + 1) - idx) + 1 + Work(Len(pending) - 1)
                        + Len(secrets) + 2
      [] pc = "audit" -> ((Len(Items(resolved)) + 1) - ai) + 1
      [] OTHER -> 0

\* C15: the run always ends: until it has ended a step is possible, and every
\* step lowers the bound Measure of the steps left. A pass that does not raise
\* hands a strictly shorter pending list to the next pass, never more passes
\* are started than there are requirements, and for an empty list resolve
\* returns an empty resolved set without a pass.
C15_Terminates ==
    /\ [](~Ended => ENABLED Next)
    /\ [][ /\ Measure' < Measure
           /\ (pc = "pass" /\ pc' = "pass" /\ passes' # passes)
                 => Len(pending') < Len(pending)
           /\ passes' <= Len(secrets)
           /\ (pc = "start" /\ secrets = <<>>)
                 => (pc' = "audit" /\ resolved' = <<>> /\ passes' = 0)
         ]_vars

\* The second pass over a list of two has begun, with one requirement left.
C15_Witness ==
    /\ pc = "pass"
    /\ passes = 2
    /\ idx = 1
    /\ Len(secrets) = 2
    /\ Len(pending) = 1

\* ------------------------------------------------------------------- C16

\* The (application, key) pairs resolved has an entry for, one per entry.
EntryPairs(R) == [i \in DOMAIN Items(R) |-> <<Items(R)[i].app_name, Items(R)[i].key>>]

\* C16: when resolve has returned, resolved holds exactly one entry for every
\* requirement of the list, filed under and named after that requirement's
\* own application and key, and nothing else: no entry and no empty
\* application for a pair that is not a requirement of the list.
C16_Completeness ==
    ResolveReturned =>
        /\ Len(EntryPairs(resolved)) = Len(secrets)
        /\ Range(EntryPairs(resolved)) = {PairOf(r) : r \in Range(secrets)}
        /\ \A it \in Range(Items(resolved)) :
              /\ it.value.application = it.app_name
              /\ it.value.key = it.key
        /\ \A i \in DOMAIN resolved :
              /\ resolved[i].v # <<>>
              /\ resolved[i].k \in {r.application : r \in Range(secrets)}
              /\ \A j \in DOMAIN resolved : resolved[j].k = resolved[i].k => j = i

\* Resolve has returned for a list of two where B y is copied from A x.
C16_Witness ==
    /\ ResolveReturned
    /\ Len(secrets) = 2
    /\ \E r \in Range(secrets) :
          /\ PairOf(r) = <<"B", "y">>
          /\ IsCopy(r)
          /\ r.copy_rules = <<"A", "x">>
    /\ ResolvedHas(resolved, <<"A", "x">>)
    /\ ResolvedHas(resolved, <<"B", "y">>)

\* ------------------------------------------------------------------- C17

\* C17: no step of resolve or audit changes the requirement list or the store
\* snapshot the run was given, so that after audit has returned the snapshot
\* holds every entry and value it held before the call.
C17_InputsReadOnly ==
    /\ [](pc = "returned" => vault_secrets = vault_arg)
    /\ [][secrets' = secrets /\ vault_secrets' = vault_secrets]_vars

\* ------------------------------------------------------------------- C18

\* The resolved value of r is the stored one: r has no static value and no
\* copy rule, and no generate rule or a stored value that generation keeps.
TakenFromSnapshot(r) ==
    /\ ~HasStatic(r)
    /\ r.copy_rules = <<>>
    /\ (r.generate = <<>> \/ Truthy(Stored(PairOf(r))))

\* C18: when audit has returned, a requirement whose resolved value was taken
\* from the snapshot and whose key the snapshot holds is listed neither as
\* mismatched nor as missing, whatever the stored value, the empty string
\* included.
C18_RoundTrip ==
    pc = "returned" =>
        \A r \in Range(secrets) :
            (TakenFromSnapshot(r) /\ SnapshotHas(PairOf(r)))
                => /\ Label(r.application, r.key) \notin Range(mismatch)
                   /\ Label(r.application, r.key) \notin Range(missing)

====
